---- MODULE Spec2Model ----
(***************************************************************************)
(* A model of salsa's RawId (src/raw_id.rs): a u32 stored shifted by one   *)
(* in a NonZeroU32, built by From<u32> / From<usize>, read back by         *)
(* as_u32 / as_usize, compared, hashed and formatted.                      *)
(*                                                                         *)
(* Unsigned machine integers are little-endian sequences of 16-bit limbs   *)
(* (a u32 is two limbs, a 64-bit usize four), so that RawId::MAX =         *)
(* 0xFFFF_FF00, u32::MAX and values above 2^32 keep their real values and  *)
(* their real width.                                                       *)
(***************************************************************************)
EXTENDS Integers, Sequences, FiniteSets

\* Radix of one limb.
Base == 2 ^ 16

\* Width of u32.
U32Bits == 32

\* Widths of usize on the targets std supports.
PointerWidths == {32, 64}

\* How far around each boundary value the inputs of the constructors range.
Radius == 1

\* How many RawId values are alive at once.
MaxLive == 2

\* Limbs in an integer of `bits` bits.
Limbs(bits) == bits \div 16

Zero(bits) == [i \in 1..Limbs(bits) |-> 0]

AllOnes(bits) == [i \in 1..Limbs(bits) |-> Base - 1]

\* u32::MAX
U32_MAX == AllOnes(U32Bits)

\* RawId::MAX = 0xFFFF_FF00: low limb 0xFF00, high limb 0xFFFF.
MAX == <<65280, 65535>>

\* `x as usize` / `MAX as usize`: zero extension of a u32 to `bits` bits.
Widen(n, bits) == [i \in 1..Limbs(bits) |-> IF i <= Len(n) THEN n[i] ELSE 0]

\* `x as u32`: the low 32 bits.
Truncate(n, bits) == [i \in 1..Limbs(bits) |-> n[i]]

\* a < b on unsigned integers of the same width.
RECURSIVE Less(_, _)
Less(a, b) ==
  IF Len(a) = 0 THEN FALSE
  ELSE LET k == Len(a) IN
       IF a[k] # b[k] THEN a[k] < b[k]
       ELSE Less(SubSeq(a, 1, k - 1), SubSeq(b, 1, k - 1))

\* n + c with the carry out of the top limb (c < Base).
RECURSIVE AddCarry(_, _)
AddCarry(n, c) ==
  IF Len(n) = 0 THEN [val |-> <<>>, carry |-> c]
  ELSE LET s    == Head(n) + c
           rest == AddCarry(Tail(n), s \div Base)
       IN  [val |-> <<s % Base>> \o rest.val, carry |-> rest.carry]

\* n - c with the borrow out of the top limb (c < Base).
RECURSIVE SubBorrow(_, _)
SubBorrow(n, c) ==
  IF Len(n) = 0 THEN [val |-> <<>>, borrow |-> c]
  ELSE LET d    == Head(n) - c
           rest == SubBorrow(Tail(n), IF d < 0 THEN 1 ELSE 0)
       IN  [val |-> <<d % Base>> \o rest.val, borrow |-> rest.borrow]

\* n divided by d (0 < d < Base): quotient and remainder (long division,
\* from the top limb down).
RECURSIVE DivMod(_, _)
DivMod(n, d) ==
  IF Len(n) = 0 THEN [quot |-> <<>>, rem |-> 0]
  ELSE LET hi  == DivMod(Tail(n), d)
           cur == hi.rem * Base + Head(n)
       IN  [quot |-> <<cur \div d>> \o hi.quot, rem |-> cur % d]

\* A RawId that does not exist (the operation produced none).
NoRaw == [value |-> <<>>]

\* What an operation produced: a RawId, a number, a text, an ordering, a bool;
\* `wrapped` records an arithmetic wrap-around that went unnoticed.
Res ==
  [kind |-> "ok", why |-> "", raw |-> NoRaw, num |-> <<>>, text |-> <<>>,
   ord |-> "", flag |-> FALSE, fed |-> <<>>, wrapped |-> FALSE]

\* A panic: the operation is abandoned and yields nothing.
Panic(why) == [Res EXCEPT !.kind = "panic", !.why = why]

\* NonZeroU32::new_unchecked(0) is undefined behaviour: the build may leave the
\* zero pattern in place or any other one.
UndefinedNonZero ==
  {[Res EXCEPT !.raw = [value |-> v], !.wrapped = TRUE] :
     v \in {Zero(U32Bits), U32_MAX}}

\* Mutant of new_unchecked: the value is stored as it is, not shifted by one.
new_unchecked_unshifted(value, dbg, ovf) ==
  IF dbg /\ ~Less(value, MAX) THEN {Panic("debug_assert")}
  ELSE IF value = Zero(U32Bits) THEN UndefinedNonZero
  ELSE {[Res EXCEPT !.raw = [value |-> value]]}

\* RawId::new_unchecked: debug_assert!(value < MAX) (debug builds only), then
\* NonZeroU32::new_unchecked(value + 1).
new_unchecked(value, dbg, ovf) ==
  IF dbg /\ ~Less(value, MAX) THEN {Panic("debug_assert")}
  ELSE LET s == AddCarry(value, 1) IN
       IF s.carry # 0
       THEN IF ovf THEN {Panic("overflow")} ELSE UndefinedNonZero
       ELSE {[Res EXCEPT !.raw = [value |-> s.val]]}

\* Mutant of from_u32: the assertion is `id <= MAX`.
from_u32_inclusive(id, dbg, ovf) ==
  IF Less(MAX, id) THEN {Panic("assert")}
  ELSE new_unchecked(id, dbg, ovf)

\* Mutant of from_u32: the assertion is missing.
from_u32_unasserted(id, dbg, ovf) == new_unchecked(id, dbg, ovf)

\* impl From<u32> for RawId
from_u32(id, dbg, ovf) ==
  IF ~Less(id, MAX) THEN {Panic("assert")}
  ELSE new_unchecked(id, dbg, ovf)

\* Mutant of from_usize: the assertion is `id <= MAX as usize`.
from_usize_inclusive(id, w, dbg, ovf) ==
  IF Less(Widen(MAX, w), id) THEN {Panic("assert")}
  ELSE new_unchecked(Truncate(id, U32Bits), dbg, ovf)

\* Mutant of from_usize: the cast narrows to 16 bits (`id as u16 as u32`).
from_usize_narrow(id, w, dbg, ovf) ==
  IF ~Less(id, Widen(MAX, w)) THEN {Panic("assert")}
  ELSE new_unchecked(Widen(Truncate(id, 16), U32Bits), dbg, ovf)

\* Mutant of from_usize: the cast comes before the check
\* (`assert!((id as u32) < MAX)`).
from_usize_cast_first(id, w, dbg, ovf) ==
  IF ~Less(Truncate(id, U32Bits), MAX) THEN {Panic("assert")}
  ELSE new_unchecked(Truncate(id, U32Bits), dbg, ovf)

\* impl From<usize> for RawId, on a target whose usize has w bits.
from_usize(id, w, dbg, ovf) ==
  IF ~Less(id, Widen(MAX, w)) THEN {Panic("assert")}
  ELSE new_unchecked(Truncate(id, U32Bits), dbg, ovf)

\* Mutant of as_u32: the stored value is returned without the `- 1`.
as_u32_unshifted(raw, ovf) == [Res EXCEPT !.num = raw.value]

\* Mutant of as_u32: the result is narrowed to its low 16 bits
\* (`(self.value.get() - 1) as u16 as u32`).
as_u32_low_half(raw, ovf) ==
  LET d == SubBorrow(raw.value, 1) IN
  IF d.borrow # 0
  THEN IF ovf THEN Panic("overflow")
       ELSE [Res EXCEPT !.num = Widen(Truncate(d.val, 16), U32Bits), !.wrapped = TRUE]
  ELSE [Res EXCEPT !.num = Widen(Truncate(d.val, 16), U32Bits)]

\* RawId::as_u32: self.value.get() - 1.
as_u32(raw, ovf) ==
  LET d == SubBorrow(raw.value, 1) IN
  IF d.borrow # 0
  THEN IF ovf THEN Panic("overflow")
       ELSE [Res EXCEPT !.num = d.val, !.wrapped = TRUE]
  ELSE [Res EXCEPT !.num = d.val]

\* RawId::as_usize: self.as_u32() as usize.
as_usize(raw, w, ovf) ==
  LET r == as_u32(raw, ovf) IN
  IF r.kind = "panic" THEN r ELSE [r EXCEPT !.num = Widen(r.num, w)]

\* impl From<RawId> for u32
u32_from(raw, ovf) == as_u32(raw, ovf)

\* impl From<RawId> for usize
usize_from(raw, w, ovf) == as_usize(raw, w, ovf)

DigitChar == <<"0", "1", "2", "3", "4", "5", "6", "7", "8", "9">>

\* The decimal digits of n > 0, most significant first (none for 0).
RECURSIVE Digits(_)
Digits(n) ==
  IF \A i \in 1..Len(n) : n[i] = 0 THEN <<>>
  ELSE LET dm == DivMod(n, 10) IN Append(Digits(dm.quot), DigitChar[dm.rem + 1])

\* usize's Display / Debug formatting with an empty format specification:
\* the decimal digits, "0" for zero.
fmt_usize(n) == LET ds == Digits(n) IN IF ds = <<>> THEN <<"0">> ELSE ds

\* Mutant of Debug_fmt: the stored value is formatted (`self.value.fmt(f)`).
Debug_fmt_stored(raw, w, ovf) ==
  [Res EXCEPT !.text = fmt_usize(Widen(raw.value, w))]

\* impl fmt::Debug for RawId: self.as_usize().fmt(f)
Debug_fmt(raw, w, ovf) ==
  LET r == as_usize(raw, w, ovf) IN
  IF r.kind = "panic" THEN r
  ELSE [Res EXCEPT !.text = fmt_usize(r.num), !.wrapped = r.wrapped]

\* impl fmt::Display for RawId: self.as_usize().fmt(f)
Display_fmt(raw, w, ovf) ==
  LET r == as_usize(raw, w, ovf) IN
  IF r.kind = "panic" THEN r
  ELSE [Res EXCEPT !.text = fmt_usize(r.num), !.wrapped = r.wrapped]

\* #[derive(PartialEq, Eq)]: the `value` fields are equal.
eq(a, b) == a.value = b.value

\* a < b decided by the lowest limb that differs.
RECURSIVE LessLowFirst(_, _)
LessLowFirst(a, b) ==
  IF Len(a) = 0 THEN FALSE
  ELSE IF Head(a) # Head(b) THEN Head(a) < Head(b)
  ELSE LessLowFirst(Tail(a), Tail(b))

\* Mutant of cmp: the representations are compared from their low end, as a
\* byte-wise comparison of little-endian memory would.
cmp_low_first(a, b) ==
  IF LessLowFirst(a.value, b.value) THEN "Less"
  ELSE IF LessLowFirst(b.value, a.value) THEN "Greater"
  ELSE "Equal"

\* #[derive(PartialOrd, Ord)]: the `value` fields compared as integers.
cmp(a, b) ==
  IF Less(a.value, b.value) THEN "Less"
  ELSE IF Less(b.value, a.value) THEN "Greater"
  ELSE "Equal"

\* #[derive(Hash)]: the `value` field is written to the hasher as one u32; the
\* hasher's state is the sequence of words written so far.
hash(raw, state) == Append(state, raw.value)

----------------------------------------------------------------------------
\* The inputs the callers pass.

Plus(n, k) == AddCarry(n, k).val

Minus(n, k) == SubBorrow(n, k).val

\* 22, the value of the documentation's examples.
TwentyTwo == Plus(Zero(U32Bits), 22)

\* 2^16, the first number that does not fit the low limb.
LimbEdge == <<0, 1>>

\* u32 inputs: around 0, 22, 2^16, around RawId::MAX, and up to u32::MAX.
U32Inputs ==
  {Plus(Zero(U32Bits), k) : k \in 0..Radius} \cup {TwentyTwo}
    \cup {LimbEdge}
    \cup {Minus(MAX, k) : k \in 0..Radius} \cup {Plus(MAX, k) : k \in 0..Radius}
    \cup {Minus(U32_MAX, k) : k \in 0..Radius}

\* The upper 32 bits of a 64-bit usize input: 0, 1 (2^32 + low) and all ones.
HighWords == {Zero(U32Bits), Plus(Zero(U32Bits), 1), U32_MAX}

\* usize inputs on a target whose usize has w bits.
UsizeInputs(w) ==
  IF w = U32Bits THEN U32Inputs
  ELSE {lo \o hi : lo \in U32Inputs, hi \in HighWords}

\* The hasher states a RawId is hashed into: a fresh hasher, and one that was
\* already written to.
Hashers == {<<>>, <<TwentyTwo>>}

----------------------------------------------------------------------------
VARIABLES
  debug_assertions,  \* cfg(debug_assertions): debug_assert! is compiled in
  overflow_checks,   \* -C overflow-checks: + and - panic on overflow
  usize_bits,        \* target_pointer_width
  status,            \* "running", or "panicked" once an operation has panicked
  live,              \* the RawId values that exist, each with the call that made it
  out                \* the last operation, its operands and what it produced

vars == <<debug_assertions, overflow_checks, usize_bits, status, live, out>>

build == <<debug_assertions, overflow_checks, usize_bits>>

Init ==
  /\ debug_assertions \in BOOLEAN
  /\ overflow_checks \in BOOLEAN
  /\ usize_bits \in PointerWidths
  /\ status = "running"
  /\ live = {}
  /\ out = [op |-> "none", arg |-> <<>>, subj |-> <<>>, res |-> Res]

\* A constructor returned r for the argument id: the RawId, if any, now exists;
\* a panic ends the run.
Constructed(op, via, id, r) ==
  /\ out' = [op |-> op, arg |-> id, subj |-> <<>>, res |-> r]
  /\ live' = IF r.kind = "ok"
             THEN live \cup {[raw |-> r.raw, via |-> via, arg |-> id]}
             ELSE live
  /\ status' = IF r.kind = "ok" THEN "running" ELSE "panicked"
  /\ UNCHANGED build

\* An operation on existing RawIds returned r.
Observed(op, subj, r) ==
  /\ out' = [op |-> op, arg |-> <<>>, subj |-> subj, res |-> r]
  /\ status' = IF r.kind = "ok" THEN "running" ELSE "panicked"
  /\ UNCHANGED <<live, build>>

\* RawId::from(id: u32)
FromU32 ==
  /\ status = "running"
  /\ Cardinality(live) < MaxLive
  /\ \E id \in U32Inputs :
       \E r \in from_u32(id, debug_assertions, overflow_checks) :
         Constructed("from_u32", "u32", id, r)

\* RawId::from(id: usize)
FromUsize ==
  /\ status = "running"
  /\ Cardinality(live) < MaxLive
  /\ \E id \in UsizeInputs(usize_bits) :
       \E r \in from_usize(id, usize_bits, debug_assertions, overflow_checks) :
         Constructed("from_usize", "usize", id, r)

AsU32 ==
  /\ status = "running"
  /\ \E e \in live : Observed("as_u32", <<e>>, as_u32(e.raw, overflow_checks))

AsUsize ==
  /\ status = "running"
  /\ \E e \in live :
       Observed("as_usize", <<e>>, as_usize(e.raw, usize_bits, overflow_checks))

U32From ==
  /\ status = "running"
  /\ \E e \in live : Observed("u32_from", <<e>>, u32_from(e.raw, overflow_checks))

UsizeFrom ==
  /\ status = "running"
  /\ \E e \in live :
       Observed("usize_from", <<e>>, usize_from(e.raw, usize_bits, overflow_checks))

DebugFmt ==
  /\ status = "running"
  /\ \E e \in live :
       Observed("Debug_fmt", <<e>>, Debug_fmt(e.raw, usize_bits, overflow_checks))

DisplayFmt ==
  /\ status = "running"
  /\ \E e \in live :
       Observed("Display_fmt", <<e>>, Display_fmt(e.raw, usize_bits, overflow_checks))

\* a == b
Eq ==
  /\ status = "running"
  /\ \E a \in live, b \in live :
       Observed("eq", <<a, b>>, [Res EXCEPT !.flag = eq(a.raw, b.raw)])

\* a.cmp(&b)
Cmp ==
  /\ status = "running"
  /\ \E a \in live, b \in live :
       Observed("cmp", <<a, b>>, [Res EXCEPT !.ord = cmp(a.raw, b.raw)])

\* a.hash(&mut state)
Hash ==
  /\ status = "running"
  /\ \E e \in live, h \in Hashers :
       Observed("hash", <<e>>, [Res EXCEPT !.fed = hash(e.raw, h)])

Next ==
  \/ FromU32
  \/ FromUsize
  \/ AsU32
  \/ AsUsize
  \/ U32From
  \/ UsizeFrom
  \/ DebugFmt
  \/ DisplayFmt
  \/ Eq
  \/ Cmp
  \/ Hash

Spec == Init /\ [][Next]_vars

----------------------------------------------------------------------------
\* Vocabulary of the properties.

\* A number of either width as a 64-bit one, to compare across widths.
N(n) == Widen(n, 64)

\* RawId::MAX at the width of n.
MaxFor(n) == Widen(MAX, 16 * Len(n))

Constructors == {"from_u32", "from_usize"}

Extractors == {"as_u32", "as_usize", "u32_from", "usize_from"}

\* n * m + a, wrapped to the width of n (m, a < Base).
RECURSIVE MulAdd(_, _, _)
MulAdd(n, m, a) ==
  IF Len(n) = 0 THEN <<>>
  ELSE LET s == Head(n) * m + a
       IN  <<s % Base>> \o MulAdd(Tail(n), m, s \div Base)

\* The value of a decimal digit character.
DigitValue ==
  [c \in {"0", "1", "2", "3", "4", "5", "6", "7", "8", "9"} |->
     CASE c = "0" -> 0 [] c = "1" -> 1 [] c = "2" -> 2 [] c = "3" -> 3
       [] c = "4" -> 4 [] c = "5" -> 5 [] c = "6" -> 6 [] c = "7" -> 7
       [] c = "8" -> 8 [] c = "9" -> 9]

\* The number a string of decimal digits denotes, as a 64-bit number.
RECURSIVE ParseDecimal(_)
ParseDecimal(t) ==
  IF t = <<>> THEN Zero(64)
  ELSE MulAdd(ParseDecimal(SubSeq(t, 1, Len(t) - 1)), 10, DigitValue[t[Len(t)]])

\* t is a plain decimal numeral: digits only, no sign, no leading zero.
PlainDecimal(t) ==
  /\ Len(t) >= 1
  /\ \A i \in 1..Len(t) : t[i] \in DOMAIN DigitValue
  /\ (Len(t) > 1 => t[1] # "0")

\* The entry of `live` a successful constructor call has just added.
Made == [raw |-> out.res.raw, via |-> IF out.op = "from_u32" THEN "u32" ELSE "usize",
         arg |-> out.arg]

----------------------------------------------------------------------------
\* C1. Round trip: every n < MAX is accepted by both constructors, and
\* as_u32(from_u32(n)) = n and as_usize(from_usize(n)) = n, both computed from
\* the RawId and as the extraction operations report it.
RoundTrip ==
  /\ (out.op \in Constructors /\ Less(out.arg, MaxFor(out.arg)))
        => (out.res.kind = "ok" /\ Made \in live)
  /\ \A e \in live :
        /\ e.via = "u32" => as_u32(e.raw, overflow_checks) = [Res EXCEPT !.num = e.arg]
        /\ e.via = "usize" =>
             as_usize(e.raw, usize_bits, overflow_checks) = [Res EXCEPT !.num = e.arg]
  /\ (out.op \in {"as_u32", "u32_from"} /\ out.subj[1].via = "u32")
        => (out.res.kind = "ok" /\ out.res.num = out.subj[1].arg)
  /\ (out.op \in {"as_usize", "usize_from"} /\ out.subj[1].via = "usize")
        => (out.res.kind = "ok" /\ out.res.num = out.subj[1].arg)

\* as_usize has returned MAX - 1 for the RawId made from MAX - 1 as a 64-bit usize.
RoundTripWitness ==
  /\ usize_bits = 64
  /\ out.op = "as_usize"
  /\ out.subj[1].via = "usize"
  /\ out.subj[1].arg = Widen(Minus(MAX, 1), 64)
  /\ out.res.num = Widen(Minus(MAX, 1), 64)

\* C2. Range rejection: a constructor called with MAX or more panics, yields no
\* RawId and adds none to the live ones; called with MAX - 1 it succeeds and the
\* RawId reads back as MAX - 1.
RangeRejection ==
  /\ (out.op \in Constructors /\ ~Less(out.arg, MaxFor(out.arg)))
        => /\ out.res.kind = "panic"
           /\ out.res.raw = NoRaw
           /\ status = "panicked"
  /\ \A e \in live : N(e.arg) # N(MAX) /\ ~Less(N(MAX), N(e.arg))
  /\ (out.op \in Constructors /\ N(out.arg) = N(Minus(MAX, 1)))
        => /\ out.res.kind = "ok"
           /\ status = "running"
           /\ Made \in live
           /\ as_u32(out.res.raw, overflow_checks).num = Minus(MAX, 1)
           /\ as_usize(out.res.raw, usize_bits, overflow_checks).num
                = Widen(Minus(MAX, 1), usize_bits)

\* from_usize(MAX) has panicked after from_u32(MAX - 1) had succeeded.
RangeRejectionWitness ==
  /\ status = "panicked"
  /\ out.op = "from_usize"
  /\ out.arg = Widen(MAX, usize_bits)
  /\ out.res.kind = "panic"
  /\ \E e \in live : e.via = "u32" /\ e.arg = Minus(MAX, 1)

\* C3. Validity: every RawId that exists has a displayed value v with
\* 0 <= v < MAX and a stored value v + 1 in 1..MAX, never zero, in debug and in
\* release builds alike.
ValidityInvariant ==
  \A e \in live :
    /\ Len(e.raw.value) = Limbs(U32Bits)
    /\ e.raw.value # Zero(U32Bits)
    /\ ~Less(MAX, e.raw.value)
    /\ SubBorrow(e.raw.value, 1).borrow = 0
    /\ Less(SubBorrow(e.raw.value, 1).val, MAX)
    /\ AddCarry(SubBorrow(e.raw.value, 1).val, 1) = [val |-> e.raw.value, carry |-> 0]
    /\ as_u32(e.raw, overflow_checks).kind = "ok"
    /\ Less(as_u32(e.raw, overflow_checks).num, MAX)

\* A release build (no debug assertion) holds the RawId of MAX - 1, stored as MAX.
ValidityWitness ==
  /\ ~debug_assertions
  /\ \E e \in live : e.arg = Minus(MAX, 1) /\ e.raw.value = MAX

\* C4. Equality and ordering follow the displayed values: two RawIds are equal
\* iff they were made from equal numbers, and one is less than the other iff
\* its number is less.
EqOrdConsistent ==
  /\ \A a \in live, b \in live :
        /\ eq(a.raw, b.raw) <=> (N(a.arg) = N(b.arg))
        /\ (cmp(a.raw, b.raw) = "Less") <=> Less(N(a.arg), N(b.arg))
        /\ (cmp(a.raw, b.raw) = "Greater") <=> Less(N(b.arg), N(a.arg))
        /\ (cmp(a.raw, b.raw) = "Equal") <=> (N(a.arg) = N(b.arg))
  /\ out.op = "eq" => (out.res.flag <=> (N(out.subj[1].arg) = N(out.subj[2].arg)))
  /\ out.op = "cmp" =>
        ((out.res.ord = "Less") <=> Less(N(out.subj[1].arg), N(out.subj[2].arg)))

\* from_u32(2^16) has been compared with from_u32(22) and found greater.
EqOrdWitness ==
  /\ out.op = "cmp"
  /\ out.subj[1].via = "u32" /\ out.subj[1].arg = LimbEdge
  /\ out.subj[2].via = "u32" /\ out.subj[2].arg = TwentyTwo
  /\ out.res.ord = "Greater"

\* C5. The two constructors agree: the RawId made from n as a u32 equals the
\* one made from n as a usize, and as_u32 and as_usize return n for both.
PathsAgree ==
  \A a \in live, b \in live :
    (a.via = "u32" /\ b.via = "usize" /\ N(a.arg) = N(b.arg)) =>
      /\ eq(a.raw, b.raw)
      /\ a.raw = b.raw
      /\ as_u32(a.raw, overflow_checks).num = a.arg
      /\ as_u32(b.raw, overflow_checks).num = a.arg
      /\ as_usize(a.raw, usize_bits, overflow_checks).num = b.arg
      /\ as_usize(b.raw, usize_bits, overflow_checks).num = b.arg
      /\ as_usize(b.raw, usize_bits, overflow_checks).num
           = Widen(as_u32(b.raw, overflow_checks).num, usize_bits)

\* from_u32(22) and from_usize(22) have been compared and found equal.
PathsAgreeWitness ==
  /\ out.op = "eq"
  /\ out.subj[1].via = "u32" /\ out.subj[1].arg = TwentyTwo
  /\ out.subj[2].via = "usize" /\ N(out.subj[2].arg) = N(TwentyTwo)
  /\ out.res.flag

Rendering ==
  /\ \A e \in live :
        LET d == Debug_fmt(e.raw, usize_bits, overflow_checks)
            p == Display_fmt(e.raw, usize_bits, overflow_checks)
        IN  /\ d = p
            /\ d.kind = "ok"
            /\ PlainDecimal(d.text)
            /\ ParseDecimal(d.text) = N(e.arg)
            /\ N(e.arg) = N(TwentyTwo) => d.text = <<"2", "2">>
            /\ N(e.arg) = N(Minus(MAX, 1)) =>
                 d.text = <<"4", "2", "9", "4", "9", "6", "7", "0", "3", "9">>
  /\ out.op \in {"Debug_fmt", "Display_fmt"} =>
        /\ out.res.kind = "ok"
        /\ PlainDecimal(out.res.text)
        /\ ParseDecimal(out.res.text) = N(out.subj[1].arg)

\* Debug has rendered from(MAX - 1) as "4294967039".
RenderingWitness ==
  /\ out.op = "Debug_fmt"
  /\ N(out.subj[1].arg) = N(Minus(MAX, 1))
  /\ out.res.text = <<"4", "2", "9", "4", "9", "6", "7", "0", "3", "9">>

\* C8. Hashing: what a RawId feeds to a hasher is determined by its displayed
\* value alone: RawIds that compare equal, that read back as the same number or
\* that were made from the same number (as a u32 or as a usize) leave any hasher
\* in the same state.
HashConsistent ==
  /\ \A a \in live, b \in live :
        (\/ eq(a.raw, b.raw)
         \/ as_u32(a.raw, overflow_checks).num = as_u32(b.raw, overflow_checks).num
         \/ N(a.arg) = N(b.arg))
          => \A h \in Hashers : hash(a.raw, h) = hash(b.raw, h)
  /\ out.op = "hash" =>
        \A b \in live :
          N(b.arg) = N(out.subj[1].arg) =>
            \E h \in Hashers : out.res.fed = hash(b.raw, h)

\* from_usize(2^16) has been hashed while from_u32(2^16) exists too.
HashWitness ==
  /\ out.op = "hash"
  /\ out.subj[1].via = "usize" /\ N(out.subj[1].arg) = N(LimbEdge)
  /\ \E b \in live : b.via = "u32" /\ b.arg = LimbEdge
  /\ out.res.fed = <<Plus(LimbEdge, 1)>>

\* C9. No silent truncation: from_usize checks the range before it narrows to
\* u32, so a usize of MAX or more, 2^32 + n with n < MAX included, panics and
\* is never taken for its low 32 bits.
NoSilentTruncation ==
  /\ \A e \in live :
        e.via = "usize" =>
          /\ Less(e.arg, Widen(MAX, usize_bits))
          /\ Widen(Truncate(e.arg, U32Bits), usize_bits) = e.arg
          /\ as_usize(e.raw, usize_bits, overflow_checks).num = e.arg
  /\ (out.op = "from_usize"
        /\ Widen(Truncate(out.arg, U32Bits), usize_bits) # out.arg)
        => (out.res = Panic("assert") /\ status = "panicked")

\* On a 64-bit target from_usize(2^32 + 22) has panicked.
NoSilentTruncationWitness ==
  /\ usize_bits = 64
  /\ out.op = "from_usize"
  /\ out.arg = TwentyTwo \o Plus(Zero(U32Bits), 1)
  /\ out.res.kind = "panic"
  /\ status = "panicked"

\* C10. The shift stays within u32: value + 1 in new_unchecked never overflows
\* for an accepted value (the stored value is at most MAX), value - 1 in as_u32
\* never underflows for an existing RawId, and no extraction fails.
ShiftInRange ==
  /\ out.res.why # "overflow"
  /\ ~out.res.wrapped
  /\ out.op \in Constructors /\ out.res.kind = "ok" =>
        /\ AddCarry(Truncate(out.arg, U32Bits), 1) = [val |-> out.res.raw.value, carry |-> 0]
        /\ ~Less(MAX, out.res.raw.value)
  /\ out.op \in Extractors \cup {"Debug_fmt", "Display_fmt"} => out.res.kind = "ok"
  /\ \A e \in live :
        /\ SubBorrow(e.raw.value, 1).borrow = 0
        /\ as_u32(e.raw, overflow_checks).kind = "ok"
        /\ ~as_u32(e.raw, overflow_checks).wrapped
        /\ as_usize(e.raw, usize_bits, overflow_checks).kind = "ok"

\* With overflow checks on, as_u32 has returned 0 for from(0), whose stored
\* value is 1, while the RawId stored as MAX exists.
ShiftInRangeWitness ==
  /\ overflow_checks
  /\ out.op = "as_u32"
  /\ out.subj[1].raw.value = Plus(Zero(U32Bits), 1)
  /\ out.res.num = Zero(U32Bits)
  /\ \E e \in live : e.raw.value = MAX

====
